---- MODULE Spec2Model ----
(***************************************************************************)
(* A model of the LAIS Vegas Python clients:                               *)
(*   - src/public/sdk/lais_vegas.py        the socket SDK (class LAISVegas) *)
(*   - src/examples/python/lais_vegas.py   the HTTP/socket client           *)
(*   - src/examples/python/simple_bot.py   evaluate_preflop, decide_action, *)
(*                                         class SimpleBot                  *)
(*                                                                         *)
(* Python values are modelled as follows.  An Optional value is a set of    *)
(* at most one element: None is {} and a value x is {x}.  A dict is a       *)
(* record (a function from its keys); a missing key is a missing field.    *)
(* A list is a sequence.  random.random() is a draw in tenths, 0..9.       *)
(***************************************************************************)
EXTENDS Integers, Sequences, FiniteSets, TLC

\* ------------------------------------------------------------------ bounds
MaxChips == 20
MaxBet == 2
MaxPot == 3

\* ------------------------------------------------------- Python primitives
None == {}
Some(x) == {x}
Val(o) == CHOOSE x \in o : TRUE
Min(a, b) == IF a <= b THEN a ELSE b
Max(a, b) == IF a >= b THEN a ELSE b

\* dict.get(key, default) on a record
Get(d, key, default) == IF key \in DOMAIN d THEN d[key] ELSE default

\* ------------------------------------------------------------------- cards
Card(suit, rank) == [suit |-> suit, rank |-> rank]
Unknown == Card("?", "?")

\* RANK_VALUES.get(rank, 14): an unlisted rank counted as an Ace
RANK_VALUES_default_ace(rank) ==
    CASE rank = "2" -> 2 [] rank = "3" -> 3 [] rank = "4" -> 4
      [] rank = "5" -> 5 [] rank = "6" -> 6 [] rank = "7" -> 7
      [] rank = "8" -> 8 [] rank = "9" -> 9 [] rank = "10" -> 10
      [] rank = "J" -> 11 [] rank = "Q" -> 12 [] rank = "K" -> 13
      [] OTHER -> 14

RANK_VALUES(rank) ==
    CASE rank = "2" -> 2 [] rank = "3" -> 3 [] rank = "4" -> 4
      [] rank = "5" -> 5 [] rank = "6" -> 6 [] rank = "7" -> 7
      [] rank = "8" -> 8 [] rank = "9" -> 9 [] rank = "10" -> 10
      [] rank = "J" -> 11 [] rank = "Q" -> 12 [] rank = "K" -> 13
      [] rank = "A" -> 14
      [] OTHER -> 0

\* the Good rules tested before the Premium rules
evaluate_preflop_good_first(cards) ==
    IF Len(cards) < 2 THEN "weak"
    ELSE
      LET c1 == cards[1]
          c2 == cards[2]
          r1 == RANK_VALUES(c1.rank)
          r2 == RANK_VALUES(c2.rank)
          is_pair == c1.rank = c2.rank
          is_suited == c1.suit = c2.suit
          high == Max(r1, r2)
          low == Min(r1, r2)
          gap == high - low
      IN  IF is_pair /\ high >= 10 THEN "good"
          ELSE IF high = 14 /\ low >= 12 THEN "good"
          ELSE IF high = 13 /\ low = 12 /\ is_suited THEN "good"
          ELSE IF is_pair /\ high >= 12 THEN "premium"
          ELSE IF high = 14 /\ low = 13 /\ is_suited THEN "premium"
          ELSE IF is_pair /\ high >= 7 THEN "playable"
          ELSE IF is_suited /\ gap <= 2 /\ high >= 8 THEN "playable"
          ELSE IF is_suited /\ high = 14 THEN "playable"
          ELSE "weak"

\* the suited-connector rule without its test of the high card
evaluate_preflop_any_connector(cards) ==
    IF Len(cards) < 2 THEN "weak"
    ELSE
      LET c1 == cards[1]
          c2 == cards[2]
          r1 == RANK_VALUES(c1.rank)
          r2 == RANK_VALUES(c2.rank)
          is_pair == c1.rank = c2.rank
          is_suited == c1.suit = c2.suit
          high == Max(r1, r2)
          low == Min(r1, r2)
          gap == high - low
      IN  IF is_pair /\ high >= 12 THEN "premium"
          ELSE IF high = 14 /\ low = 13 /\ is_suited THEN "premium"
          ELSE IF is_pair /\ high >= 10 THEN "good"
          ELSE IF high = 14 /\ low >= 12 THEN "good"
          ELSE IF high = 13 /\ low = 12 /\ is_suited THEN "good"
          ELSE IF is_pair /\ high >= 7 THEN "playable"
          ELSE IF is_suited /\ gap <= 2 THEN "playable"
          ELSE IF is_suited /\ high = 14 THEN "playable"
          ELSE "weak"

evaluate_preflop(cards) ==
    IF Len(cards) < 2 THEN "weak"
    ELSE
      LET c1 == cards[1]
          c2 == cards[2]
          r1 == RANK_VALUES(c1.rank)
          r2 == RANK_VALUES(c2.rank)
          is_pair == c1.rank = c2.rank
          is_suited == c1.suit = c2.suit
          high == Max(r1, r2)
          low == Min(r1, r2)
          gap == high - low
      IN  IF is_pair /\ high >= 12 THEN "premium"
          ELSE IF high = 14 /\ low = 13 /\ is_suited THEN "premium"
          ELSE IF is_pair /\ high >= 10 THEN "good"
          ELSE IF high = 14 /\ low >= 12 THEN "good"
          ELSE IF high = 13 /\ low = 12 /\ is_suited THEN "good"
          ELSE IF is_pair /\ high >= 7 THEN "playable"
          ELSE IF is_suited /\ gap <= 2 /\ high >= 8 THEN "playable"
          ELSE IF is_suited /\ high = 14 THEN "playable"
          ELSE "weak"

\* --------------------------------------------------------------- HandState
HandState(phase, pot, community_cards, your_cards, your_bet, current_bet, your_chips, is_your_turn, active_players, players) ==
    [phase |-> phase, pot |-> pot, community_cards |-> community_cards,
     your_cards |-> your_cards, your_bet |-> your_bet,
     current_bet |-> current_bet, your_chips |-> your_chips,
     is_your_turn |-> is_your_turn, active_players |-> active_players,
     players |-> players]

\* current_bet - your_bet, without the floor at 0
call_amount_signed(state) == state.current_bet - state.your_bet
call_amount(state) == Max(0, state.current_bet - state.your_bet)

\* ------------------------------------------- parse_cards, parse_hand_state
\* An entry of a payload's card list: a dict (a missing key is None) or a
\* string.
DictCard(suit, rank) == [kind |-> "dict", suit |-> suit, rank |-> rank]
StrCard(value) == [kind |-> "str", value |-> value]

\* parse_cards: one entry; an entry that is neither a full dict nor
\* "hidden" is skipped
ParseCard(c) ==
    IF c.kind = "dict" /\ c.suit # None /\ c.rank # None
    THEN <<Card(Val(c.suit), Val(c.rank))>>
    ELSE IF c.kind = "str" /\ c.value = "hidden" THEN <<Unknown>>
    ELSE <<>>

RECURSIVE parse_cards(_)
parse_cards(cards) ==
    IF cards = <<>> THEN <<>>
    ELSE ParseCard(Head(cards)) \o parse_cards(Tail(cards))

\* a player record of a snapshot; a missing key is None
Player(agent_id, cards, bet, chips, is_folded) ==
    [agent_id |-> agent_id, cards |-> cards, bet |-> bet, chips |-> chips,
     is_folded |-> is_folded]

\* data["current_hand"]; a missing key is None
Hand(phase, pot, community_cards, players, current_bet) ==
    [phase |-> phase, pot |-> pot, community_cards |-> community_cards,
     players |-> players, current_bet |-> current_bet]
EmptyHand == Hand(None, None, <<>>, <<>>, None)

Snapshot(current_hand, current_player) ==
    [current_hand |-> current_hand, current_player |-> current_player]

\* x.get(key, default) for a key whose absence is None
OrDefault(o, default) == IF o = None THEN default ELSE Val(o)

\* the first player whose agent_id equals agent_id (None if there is none)
RECURSIVE FindPlayer(_, _)
FindPlayer(players, agent_id) ==
    IF players = <<>> THEN None
    ELSE IF Head(players).agent_id = agent_id THEN Some(Head(players))
    ELSE FindPlayer(Tail(players), agent_id)

RECURSIVE CountNotFolded(_)
CountNotFolded(players) ==
    IF players = <<>> THEN 0
    ELSE (IF Head(players).is_folded THEN 0 ELSE 1)
           + CountNotFolded(Tail(players))

parse_hand_state(data, agent_id) ==
    LET hand == OrDefault(data.current_hand, EmptyHand)
        your_player == FindPlayer(hand.players, agent_id)
    IN  HandState(
          OrDefault(hand.phase, "waiting"),
          OrDefault(hand.pot, 0),
          parse_cards(hand.community_cards),
          IF your_player = None THEN <<>>
          ELSE parse_cards(Val(your_player).cards),
          IF your_player = None THEN 0 ELSE OrDefault(Val(your_player).bet, 0),
          OrDefault(hand.current_bet, 0),
          IF your_player = None THEN 0
          ELSE OrDefault(Val(your_player).chips, 0),
          data.current_player = agent_id,
          CountNotFolded(hand.players),
          hand.players)

\* ----------------------------------------------------------- decide_action
\* (action, amount, reasoning); amount is Optional[int]
Decision(action, amount, reasoning) ==
    [action |-> action, amount |-> amount, reasoning |-> reasoning]

\* The Playable preflop raise: current_bet + current_bet // 2, uncapped.
PlayableRaise(state) == state.current_bet + (state.current_bet \div 2)

\* draw is the value of the one random.random() call the path makes, in
\* tenths; x <= chips * 0.1 is 10*x <= chips, x <= chips * 0.05 is
\* 20*x <= chips and x <= pot * 0.5 is 2*x <= pot on the integers modelled.

\* preflop, premium: the raise without its cap
PreflopPremium_uncapped(state) ==
    Decision("raise", Some(state.pot * 3),
             "Premium hand, raising to build pot")
\* preflop, hand_strength == "premium"
PreflopPremium(state) ==
    Decision("raise", Some(Min(state.pot * 3, state.your_chips)),
             "Premium hand, raising to build pot")

\* preflop, good: the last branch folding instead of calling
PreflopGood_folds(state) ==
    IF call_amount(state) = 0 THEN
      Decision("raise",
               Some(Min(state.current_bet + (state.pot \div 2),
                        state.your_chips)),
               "Good hand, raising for value")
    ELSE IF 10 * call_amount(state) <= state.your_chips THEN
      Decision("call", None, "Good hand, calling small raise")
    ELSE Decision("fold", None, "Good hand, calling")
\* preflop, hand_strength == "good"
PreflopGood(state) ==
    IF call_amount(state) = 0 THEN
      Decision("raise",
               Some(Min(state.current_bet + (state.pot \div 2),
                        state.your_chips)),
               "Good hand, raising for value")
    ELSE IF 10 * call_amount(state) <= state.your_chips THEN
      Decision("call", None, "Good hand, calling small raise")
    ELSE Decision("call", None, "Good hand, calling")

\* preflop, playable: the small bet checked instead of called
PreflopPlayable_checks_small(state, draw) ==
    IF call_amount(state) = 0 THEN
      IF draw < 3 THEN
        Decision("raise", Some(PlayableRaise(state)),
                 "Playable hand, mixing in a raise")
      ELSE Decision("check", None, "Playable hand, checking")
    ELSE IF 20 * call_amount(state) <= state.your_chips THEN
      Decision("check", None, "Playable hand, calling small bet")
    ELSE Decision("fold", None, "Playable hand, but raise too big")
\* preflop, hand_strength == "playable"
PreflopPlayable(state, draw) ==
    IF call_amount(state) = 0 THEN
      IF draw < 3 THEN
        Decision("raise", Some(PlayableRaise(state)),
                 "Playable hand, mixing in a raise")
      ELSE Decision("check", None, "Playable hand, checking")
    ELSE IF 20 * call_amount(state) <= state.your_chips THEN
      Decision("call", None, "Playable hand, calling small bet")
    ELSE Decision("fold", None, "Playable hand, but raise too big")

\* preflop, weak: the limp as a call
PreflopWeak_limp_calls(state, draw) ==
    IF call_amount(state) = 0 THEN
      IF draw < 2 THEN Decision("call", None, "Weak hand, limping")
      ELSE Decision("check", None, "Weak hand, checking")
    ELSE Decision("fold", None, "Weak hand, folding to aggression")
\* preflop, any other hand_strength (weak)
PreflopWeak(state, draw) ==
    IF call_amount(state) = 0 THEN
      IF draw < 2 THEN Decision("check", None, "Weak hand, limping")
      ELSE Decision("check", None, "Weak hand, checking")
    ELSE Decision("fold", None, "Weak hand, folding to aggression")

\* any other phase: a good hand also calling the big bet
Postflop_good_calls_big(state, hand_strength, draw) ==
    IF call_amount(state) = 0 THEN
      IF draw < 3 THEN
        Decision("raise", Some(Min(state.pot \div 2, state.your_chips)),
                 "Betting")
      ELSE Decision("check", None, "Checking board")
    ELSE IF 2 * call_amount(state) <= state.pot THEN
      IF hand_strength \in {"premium", "good"} \/ draw < 4
      THEN Decision("call", None, "Calling")
      ELSE Decision("fold", None, "Folding to bet")
    ELSE
      IF hand_strength \in {"premium", "good"}
      THEN Decision("call", None, "Calling big bet with strong hand")
      ELSE Decision("fold", None, "Folding to big bet")
\* any other phase (the else of state.phase == "preflop")
Postflop(state, hand_strength, draw) ==
    IF call_amount(state) = 0 THEN
      IF draw < 3 THEN
        Decision("raise", Some(Min(state.pot \div 2, state.your_chips)),
                 "Betting")
      ELSE Decision("check", None, "Checking board")
    ELSE IF 2 * call_amount(state) <= state.pot THEN
      IF hand_strength \in {"premium", "good"} \/ draw < 4
      THEN Decision("call", None, "Calling")
      ELSE Decision("fold", None, "Folding to bet")
    ELSE
      IF hand_strength = "premium"
      THEN Decision("call", None, "Calling big bet with strong hand")
      ELSE Decision("fold", None, "Folding to big bet")

decide_action(state, draw) ==
    IF state.your_cards = <<>> \/ state.your_cards[1].rank = "?"
    THEN Decision("check", None, "Waiting for cards")
    ELSE
      LET hand_strength == evaluate_preflop(state.your_cards)
      IN  IF state.phase = "preflop" THEN
            IF hand_strength = "premium" THEN PreflopPremium(state)
            ELSE IF hand_strength = "good" THEN PreflopGood(state)
            ELSE IF hand_strength = "playable"
            THEN PreflopPlayable(state, draw)
            ELSE PreflopWeak(state, draw)
          ELSE Postflop(state, hand_strength, draw)

\* ------------------------------------------------------------ input domains
Phases == {"waiting", "preflop", "flop", "turn", "river", "showdown"}
Draws == 0..9

\* Hole-card lists covering every tier, the hidden placeholder and no cards.
Hands ==
    { <<>>,
      <<Unknown, Unknown>>,
      <<Card("spades", "9"), Unknown>>,
      <<Unknown, Card("spades", "9")>>,
      <<Card("spades", "A"), Card("spades", "K")>>,
      <<Card("hearts", "Q"), Card("clubs", "Q")>>,
      <<Card("hearts", "J"), Card("clubs", "J")>>,
      <<Card("hearts", "A"), Card("clubs", "Q")>>,
      <<Card("spades", "8"), Card("spades", "9")>>,
      <<Card("clubs", "7"), Card("diamonds", "2")>> }

HandStates ==
    { HandState(ph, pot, <<>>, h, yb, cb, ch, TRUE, 2, <<>>) :
        ph \in Phases, pot \in 0..MaxPot, h \in Hands,
        yb \in 0..MaxBet, cb \in 0..MaxBet, ch \in 0..MaxChips }

\* ------------------------------------------------- the HTTP/socket client
Tables == {"t1", "t2"}
AgentIds == {"A", "B"}
ApiKeys == {"k1", "k2"}
Statuses == {200, 400, 401, 500}

\* Python truthiness of an Optional[str], and `a or b`
Truthy(o) == o # None /\ o # Some("")
Or(a, b) == IF Truthy(a) THEN a ELSE b

\* _request: the exception raised for a response status ("ok": none)
RequestOutcome(status) ==
    IF status = 200 THEN "ok"
    ELSE IF status = 401 THEN "AuthenticationError"
    ELSE IF status \in {400, 403} THEN "GameError"
    ELSE "LAISVegasError"

\* A request handed to the transport.
Req(method, table, path, data) ==
    [method |-> method, table |-> table, path |-> path, data |-> data]

\* table_id = table_id or self.current_table
ResolveTableDefault(table_id, current_table) ==
    IF Truthy(table_id) THEN table_id
    ELSE IF Truthy(current_table) THEN current_table
    ELSE Some("t1")
ResolveTable(table_id, current_table) == Or(table_id, current_table)

\* join_table: self.current_table = table_id, reached only when _request
\* returned
JoinedTable(current_table, table_id, outcome) ==
    IF outcome = "ok" THEN Some(table_id) ELSE current_table

\* leave_table: if table_id == self.current_table: self.current_table = None
LeftTableAlways(current_table, table_id, outcome) ==
    IF outcome = "ok" THEN None ELSE current_table
LeftTable(current_table, table_id, outcome) ==
    IF outcome = "ok" /\ table_id = current_table THEN None ELSE current_table

\* action(): the request body; a None amount and a falsy reasoning are left
\* out of the dict
ActionData(action, amount, reasoning) ==
    [action |-> action, amount |-> amount,
     reasoning |-> IF Truthy(reasoning) THEN reasoning ELSE None]

Wrappers == {"fold", "check", "call", "raise_to", "all_in"}
WrapperAction(w) == IF w = "raise_to" THEN "raise" ELSE w

\* ------------------------------------------------------------------- state
VARIABLES
    dIn, dDraw, dOut,   \* decide_action: argument, random draw, result
    cl,                 \* the client object: api_key, current_table,
                        \* agent_id, sio
    clBefore,           \* cl as it was when the last operation began
    call,               \* the last operation: name, table_id passed, outcome
    sent,               \* what the last operation handed to the transport
    lastJoin,           \* history: table of the latest successful join
    leftSince,          \* history: a successful leave of it came after
    handlers,           \* the client's _event_handlers
    bot,                \* SimpleBot: running, hands_played, hands_won
    trig,               \* what the last step's _trigger did: event, data,
                        \* handlers invoked (NoTrigger after another step)
    sdk,                \* the socket SDK object (public/sdk): its fields
    sdkEv,              \* the last step of the SDK: event, payload, what
                        \* the handler did
    emitted,            \* what that step emitted on the socket
    eIn,                \* evaluate_preflop: the card list it is given
    eOut,               \* evaluate_preflop: the tier returned ("none" before)
    sha,                \* the digest of each string solve_pow hashes
    pw,                 \* solve_pow: arguments, nonce, position, result
    pwPrev,             \* history: the latest call of solve_pow that returned
    pIn,                \* parse_hand_state: its arguments (data, agent_id)
    pOut,               \* parse_hand_state: the HandState returned (None before)
    rIn,                \* parse_cards: the list it is given
    rOut                \* parse_cards: the list returned (None before)

vars == <<dIn, dDraw, dOut, cl, clBefore, call, sent, lastJoin, leftSince, handlers, bot, trig, sdk, sdkEv, emitted, eIn, eOut, sha, pw, pwPrev, pIn, pOut, rIn, rOut>>
decideVars == <<dIn, dDraw, dOut>>
clientVars == <<cl, clBefore, call, sent, lastJoin, leftSince>>
botVars == <<handlers, bot, trig>>
sdkVars == <<sdk, sdkEv, emitted>>
evalVars == <<eIn, eOut>>
powVars == <<sha, pw, pwPrev>>
parseVars == <<pIn, pOut, rIn, rOut>>
idleVars == <<decideVars, sdkVars, evalVars, powVars, parseVars>>
nonDecideVars == <<clientVars, botVars, sdkVars, evalVars, powVars, parseVars>>
nonClientVars == <<decideVars, botVars, sdkVars, evalVars, powVars, parseVars>>
nonSdkVars == <<decideVars, clientVars, botVars, evalVars, powVars, parseVars>>
nonEvalVars == <<decideVars, clientVars, botVars, sdkVars, powVars, parseVars>>
nonPowVars == <<decideVars, clientVars, botVars, sdkVars, evalVars, parseVars>>
nonParseVars == <<decideVars, clientVars, botVars, sdkVars, evalVars, powVars>>

NoDecision == Decision("none", None, "")
NoHandState ==
    HandState("waiting", 0, <<>>, <<>>, 0, 0, 0, FALSE, 0, <<>>)

Call(op, table_id, outcome) ==
    [op |-> op, table_id |-> table_id, outcome |-> outcome]

\* LAISVegas.__init__ with or without an api_key
InitClient ==
    /\ cl \in [api_key : {None, Some("k1")},
               current_table : {None}, agent_id : {None}, sio : {None}]
    /\ clBefore = cl
    /\ call = Call("__init__", None, "ok")
    /\ sent = <<>>
    /\ lastJoin = None
    /\ leftSince = FALSE

InitDecideIdle ==
    /\ dIn = NoHandState
    /\ dDraw = 0
    /\ dOut = NoDecision

Events ==
    {"game_state", "action_required", "hand_result", "player_action",
     "chat_message", "error"}

NoTrigger ==
    [event |-> "none", data |-> [text |-> "none"], invoked |-> <<>>,
     decisions |-> <<>>, caught |-> 0, escaped |-> FALSE]

\* SimpleBot.__init__ on a fresh client
InitBot ==
    /\ handlers = [e \in Events |-> <<>>]
    /\ bot = [running |-> FALSE, hands_played |-> 0, hands_won |-> 0]
    /\ trig = NoTrigger

\* what the socket has delivered so far: the hole cards of the most recent
\* hand:start (None before the first), the community cards of the most
\* recent phase event since it, the last board dealt before it, and whether
\* auth:success has arrived
NoSdkHistory ==
    [hand |-> None, board |-> <<>>, earlier |-> <<>>, authed |-> FALSE]
SdkHistory(h, name, data) ==
    IF name = "hand:start"
    THEN [h EXCEPT !.hand = Some(IF data.yourCards = None THEN <<>>
                                 ELSE Val(data.yourCards)),
                   !.board = <<>>,
                   !.earlier = IF h.board # <<>> THEN h.board ELSE @]
    ELSE IF name = "phase"
    THEN [h EXCEPT !.board = IF data.communityCards = None THEN <<>>
                             ELSE Val(data.communityCards)]
    ELSE IF name = "auth:success" THEN [h EXCEPT !.authed = TRUE]
    ELSE h

\* an event record of the SDK: what arrived and what the handler did
SdkEvent(name, data, before_cc, changed, repeat, cb, raised, hist) ==
    [name |-> name, data |-> data, before_cc |-> before_cc,
     changed |-> changed, repeat |-> repeat, cb |-> cb, raised |-> raised,
     hist |-> hist]

\* LAISVegas.__init__ of the socket SDK
InitSdk ==
    /\ sdk = [connected |-> FALSE, agent_id |-> None, my_seat |-> None,
              my_cards |-> <<>>, community_cards |-> <<>>, chips |-> 0,
              on_turn_callback |-> None, on_hand_start_callback |-> None,
              on_hand_end_callback |-> None]
    /\ sdkEv = SdkEvent("__init__", [text |-> "none"], 0, FALSE, FALSE,
                        None, FALSE, NoSdkHistory)
    /\ emitted = <<>>

\* evaluate_preflop not yet called
InitEvalIdle ==
    /\ eIn = <<>>
    /\ eOut = "none"

\* solve_pow not yet called
NoPow ==
    [seed |-> <<>>, target_prefix |-> <<>>, nonce |-> 0, pc |-> "idle",
     result |-> <<>>]
InitPowIdle ==
    /\ sha = <<>>
    /\ pw = NoPow
    /\ pwPrev = NoPow

\* parse_hand_state and parse_cards not yet called
InitParseIdle ==
    /\ pIn = [data |-> Snapshot(None, None), agent_id |-> None]
    /\ pOut = None
    /\ rIn = <<>>
    /\ rOut = None

Init == InitDecideIdle /\ InitClient /\ InitBot /\ InitSdk /\ InitEvalIdle /\ InitPowIdle /\ InitParseIdle

\* --------------------------------------------------- decide_action, alone
InitDecide ==
    /\ dIn \in HandStates
    /\ dDraw = 0
    /\ dOut = NoDecision
    /\ InitClient
    /\ cl.api_key = None
    /\ InitBot
    /\ InitSdk
    /\ InitEvalIdle
    /\ InitPowIdle
    /\ InitParseIdle

\* decide_action is applied to the hand state, with one outcome of the
\* random draw.
Decide ==
    /\ \E draw \in Draws :
         /\ dDraw' = draw
         /\ dOut' = decide_action(dIn, draw)
    /\ UNCHANGED dIn
    /\ UNCHANGED nonDecideVars

NextDecide == Decide

SpecDecide == InitDecide /\ [][NextDecide]_vars

\* C1: whenever decide_action returns a raise, its amount is at most
\* state.your_chips.
C1_RaiseWithinChips ==
    dOut.action = "raise" => \A a \in dOut.amount : a <= dIn.your_chips

\* ------------------------------------------------------ client operations
\* An operation that raised before touching anything.
Raised(op, table_id, exc) ==
    /\ call' = Call(op, table_id, exc)
    /\ sent' = <<>>
    /\ clBefore' = cl
    /\ UNCHANGED nonClientVars
    /\ UNCHANGED <<cl, lastJoin, leftSince>>

\* join_table(table_id, buy_in)
JoinTable ==
    \E t \in Tables, status \in Statuses :
      LET outcome == RequestOutcome(status) IN
      /\ sent' = <<Req("POST", Some(t), "join", None)>>
      /\ cl' = [cl EXCEPT !.current_table = JoinedTable(@, t, outcome)]
      /\ call' = Call("join_table", Some(t), outcome)
      /\ clBefore' = cl
      /\ UNCHANGED nonClientVars
      /\ lastJoin' = IF outcome = "ok" THEN Some(t) ELSE lastJoin
      /\ leftSince' = IF outcome = "ok" THEN FALSE ELSE leftSince

\* leave_table(table_id=None)
LeaveTable ==
    \E arg \in {None} \cup {Some(t) : t \in Tables}, status \in Statuses :
      LET table_id == ResolveTable(arg, cl.current_table)
          outcome == RequestOutcome(status)
      IN  IF ~Truthy(table_id) THEN Raised("leave_table", arg, "GameError")
          ELSE
            /\ sent' = <<Req("POST", table_id, "leave", None)>>
            /\ cl' = [cl EXCEPT
                        !.current_table = LeftTable(@, table_id, outcome)]
            /\ call' = Call("leave_table", arg, outcome)
            /\ clBefore' = cl
            /\ UNCHANGED nonClientVars
            /\ lastJoin' = lastJoin
            /\ leftSince' = (leftSince \/
                               (outcome = "ok" /\ table_id = lastJoin))

\* action(action, amount, table_id, reasoning), called directly
\* (op = "action") or through fold, check, call, raise_to, all_in
ActionOp(op, action, amount, arg, reasoning, status) ==
    LET table_id == ResolveTable(arg, cl.current_table) IN
    IF ~Truthy(table_id) THEN Raised(op, arg, "GameError")
    ELSE
      /\ sent' = <<Req("POST", table_id, "action",
                       Some(ActionData(action, amount, reasoning)))>>
      /\ call' = Call(op, arg, RequestOutcome(status))
      /\ clBefore' = cl
      /\ UNCHANGED nonClientVars
      /\ UNCHANGED <<cl, lastJoin, leftSince>>

Amounts == {None, Some(1)}
Reasonings == {None, Some(""), Some("because")}
DirectActions == {"check", "raise"}
TableArgs == {None} \cup {Some(t) : t \in Tables}

Action ==
    \E a \in DirectActions, amount \in Amounts,
       arg \in TableArgs, r \in Reasonings \ {None}, status \in Statuses :
      ActionOp("action", a, amount, arg, r, status)

WrapperCall ==
    \E w \in Wrappers, arg \in TableArgs, r \in {None, Some("because")},
       status \in Statuses :
      ActionOp(w, WrapperAction(w),
               IF w = "raise_to" THEN Some(1) ELSE None, arg, r, status)

\* get_chat(table_id=None, limit=50) and send_chat(content, table_id=None)
Chat ==
    \E op \in {"get_chat", "send_chat"}, arg \in TableArgs,
       status \in Statuses :
      LET table_id == ResolveTable(arg, cl.current_table) IN
      IF ~Truthy(table_id) THEN Raised(op, arg, "GameError")
      ELSE
        /\ sent' = <<Req(IF op = "get_chat" THEN "GET" ELSE "POST",
                         table_id, "chat", None)>>
        /\ call' = Call(op, arg, RequestOutcome(status))
        /\ clBefore' = cl
        /\ UNCHANGED nonClientVars
        /\ UNCHANGED <<cl, lastJoin, leftSince>>

\* connect_realtime(table_id=None): the api_key is looked at first, then the
\* table; the socket is created and connected last
ConnectRealtime ==
    \E arg \in TableArgs :
      LET table_id == ResolveTable(arg, cl.current_table) IN
      IF ~Truthy(cl.api_key)
      THEN Raised("connect_realtime", arg, "AuthenticationError")
      ELSE IF ~Truthy(table_id)
      THEN Raised("connect_realtime", arg, "GameError")
      ELSE
        /\ cl' = [cl EXCEPT !.sio = table_id]
        /\ sent' = <<Req("SOCKET", table_id, "connect", None)>>
        /\ call' = Call("connect_realtime", arg, "ok")
        /\ clBefore' = cl
        /\ UNCHANGED nonClientVars
        /\ UNCHANGED <<lastJoin, leftSince>>

\* disconnect_realtime()
DisconnectRealtime ==
    /\ cl' = [cl EXCEPT !.sio = None]
    /\ sent' = IF cl.sio # None
               THEN <<Req("SOCKET", cl.sio, "disconnect", None)>> ELSE <<>>
    /\ call' = Call("disconnect_realtime", None, "ok")
    /\ clBefore' = cl
    /\ UNCHANGED nonClientVars
    /\ UNCHANGED <<lastJoin, leftSince>>

NextClient ==
    \/ JoinTable
    \/ LeaveTable
    \/ Action
    \/ WrapperCall
    \/ Chat
    \/ ConnectRealtime
    \/ DisconnectRealtime

SpecClient == Init /\ [][NextClient]_vars

\* Operations that act on a table and take an optional table_id.
TableOps ==
    {"action", "get_chat", "send_chat", "leave_table", "connect_realtime"}
      \cup Wrappers

NoTableCase ==
    /\ call.op \in TableOps
    /\ call.table_id = None
    /\ clBefore.current_table = None

\* C8 as stated: a table operation with no table_id passed and no
\* current_table fails with GameError, sends nothing and changes no field.
C8_NoTableGameError ==
    NoTableCase =>
      /\ call.outcome = "GameError"
      /\ sent = <<>>
      /\ cl = clBefore

\* C8, amended: as C8, except that connect_realtime on a session without
\* api_key fails with AuthenticationError (the key is checked before the
\* table); in every case nothing is sent and no field changes.
C8_NoTableFails ==
    NoTableCase =>
      /\ call.outcome =
           IF call.op = "connect_realtime" /\ ~Truthy(clBefore.api_key)
           THEN "AuthenticationError" ELSE "GameError"
      /\ sent = <<>>
      /\ cl = clBefore

\* after a join and a leave, an operation with no table fails
C8_Witness ==
    /\ NoTableCase
    /\ call.op \in {"raise_to", "send_chat", "connect_realtime"}
    /\ call.outcome = "GameError"
    /\ lastJoin # None

\* C9: current_table is the table of the latest successful join, or unset if
\* a successful leave of that table came after it (or nothing was joined);
\* a failed join or leave, and a successful leave of another table, leave
\* current_table unchanged.
C9_CurrentTable ==
    /\ cl.current_table = IF leftSince THEN None ELSE lastJoin
    /\ (/\ call.op \in {"join_table", "leave_table"}
        /\ \/ call.outcome # "ok"
           \/ /\ call.op = "leave_table"
              /\ sent[1].table # clBefore.current_table)
       => cl.current_table = clBefore.current_table

\* a successful leave of a table other than the current one
C9_Witness ==
    /\ call.op = "leave_table"
    /\ call.outcome = "ok"
    /\ cl.current_table = Some("t2")
    /\ sent[1].table = Some("t1")

\* ---------------------------------------------------- identity operations
ChallengeTypes == {"pow", "puzzle"}

\* result["agent"] of POST /api/agents/register; a missing key is None
RegisterBodies ==
    {[agent |-> None]} \cup
    { [agent |-> Some([api_key |-> k, id |-> i])] :
        k \in {None} \cup {Some(x) : x \in ApiKeys},
        i \in {None} \cup {Some(x) : x \in AgentIds} }

\* result["agent"] of GET /api/agents/me
ProfileBodies ==
    {[agent |-> None]} \cup
    { [agent |-> Some([id |-> i])] :
        i \in {None} \cup {Some(x) : x \in AgentIds} }

\* register, lines 210-214: api_key, then agent_id (a KeyError on "id"
\* leaves the api_key assigned)
HasApiKey(body) == body.agent # None /\ Truthy(Val(body.agent).api_key)
RegisterSaves(c, body) ==
    IF ~HasApiKey(body) THEN c
    ELSE IF Val(body.agent).id = None
    THEN [c EXCEPT !.api_key = Val(body.agent).api_key]
    ELSE [c EXCEPT !.api_key = Val(body.agent).api_key,
                   !.agent_id = Val(body.agent).id]
RegisterOutcome(body) ==
    IF HasApiKey(body) /\ Val(body.agent).id = None THEN "KeyError" ELSE "ok"

\* get_profile, lines 221-222
ProfileSaves(c, body) ==
    IF body.agent = None \/ Val(body.agent).id = None THEN c
    ELSE [c EXCEPT !.agent_id = Val(body.agent).id]
ProfileOutcome(body) ==
    IF body.agent # None /\ Val(body.agent).id = None THEN "KeyError"
    ELSE "ok"

ChallengeReq == Req("POST", None, "/api/challenge", None)
RegisterReq == Req("POST", None, "/api/agents/register", Some("proof"))
ProfileReq == Req("GET", None, "/api/agents/me", None)

\* register(name): challenge, proof of work, registration
Register ==
    \E status1 \in Statuses, type \in ChallengeTypes, status2 \in Statuses,
       body \in RegisterBodies :
      /\ clBefore' = cl
      /\ UNCHANGED <<nonClientVars, lastJoin, leftSince>>
      /\ IF status1 # 200 THEN
           /\ sent' = <<ChallengeReq>>
           /\ call' = Call("register", None, RequestOutcome(status1))
           /\ cl' = cl
         ELSE IF type # "pow" THEN
           /\ sent' = <<ChallengeReq>>
           /\ call' = Call("register", None, "NotImplementedError")
           /\ cl' = cl
         ELSE IF status2 # 200 THEN
           /\ sent' = <<ChallengeReq, RegisterReq>>
           /\ call' = Call("register", None, RequestOutcome(status2))
           /\ cl' = cl
         ELSE
           /\ sent' = <<ChallengeReq, RegisterReq>>
           /\ call' = Call("register", None, RegisterOutcome(body))
           /\ cl' = RegisterSaves(cl, body)

\* get_profile()
GetProfile ==
    \E status \in Statuses, body \in ProfileBodies :
      /\ clBefore' = cl
      /\ UNCHANGED <<nonClientVars, lastJoin, leftSince>>
      /\ sent' = <<ProfileReq>>
      /\ IF status # 200 THEN
           /\ call' = Call("get_profile", None, RequestOutcome(status))
           /\ cl' = cl
         ELSE
           /\ call' = Call("get_profile", None, ProfileOutcome(body))
           /\ cl' = ProfileSaves(cl, body)

NextIdentity == Register \/ GetProfile

SpecIdentity == Init /\ [][NextIdentity]_vars

\* C10: once agent_id has a value, no later operation changes or clears it.
C10_IdentityImmutable ==
    [][cl.agent_id # None => cl.agent_id' = cl.agent_id]_vars

\* C27: register changes the credentials only on success: a challenge of
\* another type than pow fails before the registration request is sent, a
\* register that fails or whose response carries no api_key leaves api_key
\* and agent_id as they were, and a register that sets one sets both.
C27_RegisterAllOrNothing ==
    call.op = "register" =>
      /\ call.outcome = "NotImplementedError" =>
            (sent = <<ChallengeReq>> /\ cl = clBefore)
      /\ call.outcome # "ok" =>
            (cl.api_key = clBefore.api_key /\ cl.agent_id = clBefore.agent_id)
      /\ cl.api_key # clBefore.api_key => cl.agent_id # None

\* register alone, without the failure on a response that lacks "id": a
\* challenge that is not pow stops before the registration request
RegisterStopsOnPuzzle ==
    (call.op = "register" /\ call.outcome = "NotImplementedError") =>
      (sent = <<ChallengeReq>> /\ cl = clBefore)

\* ---------------------------------------------------------------- SimpleBot
MaxHandlers == 2
MaxHands == 1

\* SimpleBot.table_id
BotTable == "t1"

\* the handlers run() registers, by event
BotEvents == Events \ {"player_action"}
BotHandler(event) ==
    CASE event = "action_required" -> "on_action_required"
      [] event = "game_state" -> "on_game_state"
      [] event = "hand_result" -> "on_hand_result"
      [] event = "chat_message" -> "on_chat_message"
      [] OTHER -> "on_error"

\* events a caller of on() registers handlers of its own for
UserEvents == {"hand_result"}

\* error texts of a refused join
JoinErrors == {"Already at this table", "Table is full"}
AlreadyAtTable(msg) == msg = "Already at this table"

\* ------------------------------------------------------------ event payloads
PlayerA ==
    Player(Some("A"),
           <<DictCard(Some("spades"), Some("8")),
             DictCard(Some("spades"), Some("9"))>>,
           Some(1), Some(0), FALSE)
PlayerB == Player(Some("B"), <<StrCard("hidden"), StrCard("hidden")>>, Some(1), Some(5), FALSE)

\* agent A facing a bet of 1: without chips, and with 20 chips
PlayerAShort ==
    Player(Some("A"),
           <<DictCard(Some("spades"), Some("8")),
             DictCard(Some("spades"), Some("9"))>>,
           Some(0), Some(0), FALSE)
PlayerADeep ==
    Player(Some("A"),
           <<DictCard(Some("spades"), Some("8")),
             DictCard(Some("spades"), Some("9"))>>,
           Some(0), Some(20), FALSE)

PlayerLists == {<<>>, <<PlayerB, PlayerA>>}

\* the lists of a prompt that names agent A while it faces a bet
FacingBetLists == {<<PlayerB, PlayerAShort>>, <<PlayerADeep>>}

ActionPayloads ==
    { Snapshot(Some(Hand(Some("preflop"), Some(2), <<>>, ps, Some(1))), cp) :
        ps \in PlayerLists, cp \in {None} \cup {Some(a) : a \in AgentIds} }
    \cup { Snapshot(Some(Hand(Some("preflop"), Some(2), <<>>, ps, Some(1))),
                    Some("A")) : ps \in FacingBetLists }

Winner(agent_id) == [agent_id |-> agent_id]
HandResults ==
    { [winners |-> ws, pot |-> 2] :
        ws \in {<<>>, <<Winner(None)>>, <<Winner(Some("B")), Winner(Some("A"))>>} }

Payloads(event) ==
    IF event = "action_required" THEN ActionPayloads
    ELSE IF event = "hand_result" THEN HandResults
    ELSE {[text |-> "data"]}

\* a draw below and a draw above the thresholds of decide_action
BotDraws == {1, 5}

\* the positions of hs holding handler h
Positions(hs, h) == {i \in 1..Len(hs) : hs[i] = h}

\* ----------------------------------------------------------- bot handlers
\* on_action_required: the wrapper called for a decision, as a request body
BotActionData_no_amount(d) == ActionData(d.action, None, Some(d.reasoning))
BotActionData(d) ==
    ActionData(d.action, IF d.action = "raise" THEN d.amount ELSE None,
               Some(d.reasoning))

\* SimpleBot.on_action_required(data): the decision, what is sent, and the
\* exception that leaves the handler (GameError is caught inside it)
on_action_required(c, data, draw, status) ==
    LET state == parse_hand_state(data, c.agent_id)
        d == decide_action(state, draw)
        table_id == ResolveTable(None, c.current_table)
        outcome == RequestOutcome(status)
    IN  IF ~Truthy(table_id)
        THEN [decision |-> d, sent |-> <<>>, raised |-> "none"]
        ELSE [decision |-> d,
              sent |-> <<Req("POST", table_id, "action",
                             Some(BotActionData(d)))>>,
              raised |-> IF outcome \in {"ok", "GameError"} THEN "none"
                         ELSE outcome]

\* any(w.get("agent_id") == self.client.agent_id for w in winners)
RECURSIVE AnyWinner(_, _)
AnyWinner(winners, agent_id) ==
    IF winners = <<>> THEN FALSE
    ELSE Head(winners).agent_id = agent_id \/ AnyWinner(Tail(winners), agent_id)

\* every hand counted as won
on_hand_result_all_won(b, data, agent_id) ==
    [b EXCEPT !.hands_played = @ + 1, !.hands_won = @ + 1]
\* SimpleBot.on_hand_result(data)
on_hand_result(b, data, agent_id) ==
    [b EXCEPT !.hands_played = @ + 1,
              !.hands_won = IF AnyWinner(data.winners, agent_id)
                            THEN @ + 1 ELSE @]

\* ----------------------------------------------------------------- _trigger
\* the answers to the request of a handler: success, a GameError (caught in
\* the handler) and one error that leaves it (401 leaves it as 500 does)
HandlerStatuses == Statuses \ {401}

\* except Exception: the failures of a handler are Exceptions
ExceptException(exc) == exc # "none"

\* one handler call of the loop: env holds the event, its data and the
\* outcomes chosen for this delivery (which user handlers fail, the random
\* draw, the server's answer)
InvokeHandler(h, i, acc, env) ==
    LET r == IF h = "on_action_required"
             THEN on_action_required(env.cl, env.data, env.draw, env.status)
             ELSE [decision |-> NoDecision, sent |-> <<>>,
                   raised |-> IF h = "user" /\ i \in env.fails
                              THEN "Exception" ELSE "none"]
    IN  [bot |-> IF h = "on_hand_result"
                 THEN on_hand_result(acc.bot, env.data, env.cl.agent_id)
                 ELSE acc.bot,
         sent |-> acc.sent \o r.sent,
         invoked |-> Append(acc.invoked, h),
         decisions |-> IF h = "on_action_required"
                       THEN Append(acc.decisions, r.decision)
                       ELSE acc.decisions,
         caught |-> IF ExceptException(r.raised) THEN acc.caught + 1
                    ELSE acc.caught,
         escaped |-> r.raised # "none" /\ ~ExceptException(r.raised)]

\* for handler in handlers: try: handler(data) except Exception: log
RECURSIVE RunHandlers(_, _, _, _)
RunHandlers(hs, i, acc, env) ==
    IF i > Len(hs) \/ acc.escaped THEN acc
    ELSE RunHandlers(hs, i + 1, InvokeHandler(hs[i], i, acc, env), env)

\* on(event, handler) with a handler of the caller's own
On ==
    \E event \in UserEvents :
      /\ Len(handlers[event]) < MaxHandlers
      /\ handlers' = [handlers EXCEPT ![event] = Append(@, "user")]
      /\ call' = Call("on", None, "ok")
      /\ sent' = <<>>
      /\ clBefore' = cl
      /\ trig' = NoTrigger
      /\ UNCHANGED <<idleVars, cl, lastJoin, leftSince, bot>>

\* the socket delivers an event: _trigger(event, data)
Trigger ==
    /\ cl.sio # None
    /\ \E event \in Events :
         \E data \in Payloads(event),
            fails \in SUBSET Positions(handlers[event], "user"),
            draw \in IF Positions(handlers[event], "on_action_required") = {}
                     THEN {1} ELSE BotDraws,
            status \in IF Positions(handlers[event], "on_action_required") = {}
                          \/ ~Truthy(cl.current_table)
                       THEN {200} ELSE HandlerStatuses :
           LET env == [event |-> event, data |-> data, fails |-> fails,
                       draw |-> draw, status |-> status, cl |-> cl]
               acc == RunHandlers(handlers[event], 1,
                        [bot |-> bot, sent |-> <<>>, invoked |-> <<>>,
                         decisions |-> <<>>, caught |-> 0,
                         escaped |-> FALSE], env)
           IN  /\ acc.bot.hands_played <= MaxHands
               /\ bot' = acc.bot
               /\ sent' = acc.sent
               /\ trig' = [event |-> event, data |-> data,
                           invoked |-> acc.invoked,
                           decisions |-> acc.decisions,
                           caught |-> acc.caught, escaped |-> acc.escaped]
               /\ call' = Call("_trigger", None,
                               IF acc.escaped THEN "Exception" ELSE "ok")
               /\ clBefore' = cl
               /\ UNCHANGED <<idleVars, cl, lastJoin, leftSince, handlers>>

\* SimpleBot.run() up to wait(): profile, join, handlers, socket.  main()
\* calls run() once on a new bot: it is not entered again once it has
\* registered the bot's handlers.
BotRun ==
    /\ ~bot.running
    /\ \A e \in BotEvents : Len(handlers[e]) < MaxHandlers
    /\ \A e \in BotEvents : Positions(handlers[e], BotHandler(e)) = {}
    /\ \E pstatus \in Statuses, jstatus \in Statuses :
       \E pbody \in IF pstatus = 200 THEN ProfileBodies
                    ELSE {[agent |-> None]},
          jmsg \in IF RequestOutcome(jstatus) = "GameError" THEN JoinErrors
                   ELSE {"Table is full"} :
         LET pout == IF pstatus = 200 THEN ProfileOutcome(pbody)
                     ELSE RequestOutcome(pstatus)
             c1 == IF pstatus = 200 THEN ProfileSaves(cl, pbody) ELSE cl
             jout == RequestOutcome(jstatus)
             c2 == [c1 EXCEPT !.current_table = JoinedTable(@, BotTable, jout)]
             joinReq == Req("POST", Some(BotTable), "join", None)
             registered == [e \in Events |->
                              IF e \in BotEvents
                              THEN Append(handlers[e], BotHandler(e))
                              ELSE handlers[e]]
         IN  /\ clBefore' = cl
             /\ trig' = NoTrigger
             /\ UNCHANGED idleVars
             /\ IF pout # "ok" THEN
                  /\ call' = Call("run", None, pout)
                  /\ sent' = <<ProfileReq>>
                  /\ cl' = c1
                  /\ UNCHANGED <<handlers, bot, lastJoin, leftSince>>
                ELSE IF jout # "ok"
                        /\ ~(jout = "GameError" /\ AlreadyAtTable(jmsg)) THEN
                  /\ call' = Call("run", None, jout)
                  /\ sent' = <<ProfileReq, joinReq>>
                  /\ cl' = c2
                  /\ UNCHANGED <<handlers, bot, lastJoin, leftSince>>
                ELSE
                  /\ handlers' = registered
                  /\ lastJoin' = IF jout = "ok" THEN Some(BotTable)
                                 ELSE lastJoin
                  /\ leftSince' = IF jout = "ok" THEN FALSE ELSE leftSince
                  /\ IF ~Truthy(c2.api_key) THEN
                       /\ call' = Call("run", None, "AuthenticationError")
                       /\ sent' = <<ProfileReq, joinReq>>
                       /\ cl' = c2
                       /\ bot' = bot
                     ELSE
                       /\ call' = Call("run", None, "ok")
                       /\ sent' = <<ProfileReq, joinReq,
                                    Req("SOCKET", Some(BotTable), "connect",
                                        None)>>
                       /\ cl' = [c2 EXCEPT !.sio = Some(BotTable)]
                       /\ bot' = [bot EXCEPT !.running = TRUE]

\* wait() returns or is interrupted: disconnect_realtime, leave_table()
BotStop ==
    /\ bot.running
    /\ \E status \in Statuses :
         LET table_id == ResolveTable(None, cl.current_table)
             outcome == RequestOutcome(status)
         IN  /\ bot' = [bot EXCEPT !.running = FALSE]
             /\ clBefore' = cl
             /\ call' = Call("stop", None, "ok")
             /\ trig' = NoTrigger
             /\ UNCHANGED <<idleVars, handlers, lastJoin>>
             /\ IF ~Truthy(table_id) THEN
                  /\ cl' = [cl EXCEPT !.sio = None]
                  /\ sent' = <<Req("SOCKET", cl.sio, "disconnect", None)>>
                  /\ leftSince' = leftSince
                ELSE
                  /\ cl' = [cl EXCEPT
                              !.sio = None,
                              !.current_table = LeftTable(@, table_id, outcome)]
                  /\ sent' = <<Req("SOCKET", cl.sio, "disconnect", None),
                               Req("POST", table_id, "leave", None)>>
                  /\ leftSince' = (leftSince \/
                                     (outcome = "ok" /\ table_id = lastJoin))

NextBot == BotRun \/ BotStop \/ On \/ Trigger

SpecBot == Init /\ [][NextBot]_vars

\* the last step delivered an action_required event
Prompted == call.op = "_trigger" /\ trig.event = "action_required"

\* C2: an action_required event naming another agent than the session's own
\* reaches no decision and sends no action.
C2_NotMyTurnNoAction ==
    (Prompted /\ trig.data.current_player # cl.agent_id)
      => (trig.decisions = <<>> /\ sent = <<>>)

\* C3: a prompt naming this session as the player to act is answered by
\* exactly one action handed to the transport.
C3_PromptAnswered ==
    (Prompted /\ cl.agent_id # None /\ trig.data.current_player = cl.agent_id)
      => Len(sent) = 1

\* the last step delivered a hand_result event to the bot's on_hand_result
HandEnded(c, t) ==
    /\ c.op = "_trigger"
    /\ t.event = "hand_result"
    /\ Positions(t.invoked, "on_hand_result") # {}
AmongWinners(winners, agent_id) ==
    \E i \in 1..Len(winners) : winners[i].agent_id = agent_id

C25_AmountIffRaise ==
    \A i \in 1..Len(sent) :
      sent[i].path = "action" =>
        \A d \in sent[i].data :
          /\ d.amount # None <=> d.action = "raise"
          /\ \E j \in 1..Len(trig.decisions) :
               /\ trig.decisions[j].action = d.action
               /\ d.action = "raise" => d.amount = trig.decisions[j].amount

\* the bot submitted a raise with its amount
C25_Witness ==
    /\ Prompted
    /\ \E i \in 1..Len(sent) :
         /\ sent[i].path = "action"
         /\ Val(sent[i].data).action = "raise"
         /\ Val(sent[i].data).amount = Some(1)

\* the SDK's hand:end handler changes no field of the session
SdkHandEndKeepsState == sdkEv.name = "hand:end" => ~sdkEv.changed

\* ------------------------------------------------- the socket SDK (public)
\* cards are strings on this interface
HoleLists == {<<"As", "Ks">>, <<"7c", "2d">>}
Board == <<"2h", "7d", "9s", "Jc", "Qh">>
BoardSizes == {0, 3, 5}
PhaseOf(n) ==
    IF n = 0 THEN "preflop" ELSE IF n = 3 THEN "flop"
    ELSE IF n = 4 THEN "turn" ELSE "river"

\* payloads; a missing key is None
AuthPayloads == {[agentId |-> None], [agentId |-> Some("A")]}
SdkSeats == {None, Some(1), Some(2)}
JoinedPayloads == { [seat |-> st, chips |-> Some(1000)] : st \in SdkSeats }
HandStartPayloads == { [yourCards |-> h] : h \in {None} \cup {Some(x) : x \in HoleLists} }
PhasePayloads ==
    { [phase |-> PhaseOf(n), communityCards |-> Some(SubSeq(Board, 1, n))] : n \in BoardSizes }
      \cup {[phase |-> "showdown", communityCards |-> None]}
TurnPayloads ==
    { [activePlayerSeat |-> st, pot |-> pot, currentBet |-> Some(1), yourBet |-> Some(0), yourChips |-> Some(5), canCheck |-> None] :
        st \in SdkSeats, pot \in {None, Some(2)} }
HandEndPayloads == {[winners |-> <<>>]}

\* what a user callback does when called: it returns a value or raises
ActionDict(action, amount) == [action |-> action, amount |-> amount]
CallbackResults ==
    { [ok |-> FALSE, value |-> ActionDict("fold", None)],
      [ok |-> TRUE, value |-> ActionDict("check", None)],
      [ok |-> TRUE, value |-> ActionDict("raise", Some(3))] }

\* the handlers of _setup_handlers, as functions of the object s
on_auth(s, data) == [s EXCEPT !.agent_id = data.agentId]

on_joined(s, data) ==
    [s EXCEPT !.my_seat = data.seat, !.chips = OrDefault(data.chips, 0)]

\* the board of the hand before is kept
on_hand_start_keep(s, data) ==
    [s EXCEPT !.my_cards = OrDefault(data.yourCards, <<>>)]
on_hand_start(s, data) ==
    [s EXCEPT !.my_cards = OrDefault(data.yourCards, <<>>),
              !.community_cards = <<>>]

on_phase_append(s, data) ==
    [s EXCEPT !.community_cards = @ \o OrDefault(data.communityCards, <<>>)]
on_phase(s, data) ==
    [s EXCEPT !.community_cards = OrDefault(data.communityCards, <<>>)]

\* on_turn: data.get('activePlayerSeat') == self.my_seat
TurnIsMine(s, data) == data.activePlayerSeat = s.my_seat

\* the keyword arguments on_turn passes to the turn callback
TurnArgs(s, data) ==
    [my_cards |-> s.my_cards, community_cards |-> s.community_cards,
     pot |-> OrDefault(data.pot, 0),
     current_bet |-> OrDefault(data.currentBet, 0),
     your_bet |-> OrDefault(data.yourBet, 0),
     your_chips |-> OrDefault(data.yourChips, 0),
     can_check |-> OrDefault(data.canCheck, FALSE)]

\* reading an attribute the object may not have
SdkAttr(s, name) == IF name \in DOMAIN s THEN s[name] ELSE "AttributeError"

\* one step of the SDK: the object after it, the callback call made (None
\* or its arguments), whether an exception left the handler, what was emitted
SdkStep(name, data, s2, cb, raised, out) ==
    /\ sdk' = s2
    /\ sdkEv' = SdkEvent(name, data, Len(sdk.community_cards), s2 # sdk,
                         name = sdkEv.name /\ data = sdkEv.data, cb, raised,
                         SdkHistory(sdkEv.hist, name, data))
    /\ emitted' = out
    /\ UNCHANGED nonSdkVars

Emit(event, data) == [event |-> event, data |-> data]

\* connect()
SdkConnect ==
    /\ ~sdk.connected
    /\ SdkStep("connect()", [text |-> "none"],
               [sdk EXCEPT !.connected = TRUE], None, FALSE, <<>>)

\* on_turn(callback), on_hand_start(callback), on_hand_end(callback)
SdkOn ==
    \E kind \in {"on_turn", "on_hand_start", "on_hand_end"} :
      SdkStep(kind, [text |-> "callback"],
              IF kind = "on_turn"
              THEN [sdk EXCEPT !.on_turn_callback = Some("callback")]
              ELSE IF kind = "on_hand_start"
              THEN [sdk EXCEPT !.on_hand_start_callback = Some("callback")]
              ELSE [sdk EXCEPT !.on_hand_end_callback = Some("callback")],
              None, FALSE, <<>>)

\* join_table(table_id, buy_in)
SdkJoinTable ==
    /\ sdk.connected
    /\ \E t \in Tables :
         SdkStep("join_table()", [tableId |-> t], sdk, None, FALSE,
                 <<Emit("table:join", [tableId |-> t, buyIn |-> 1000])>>)

\* socket events
SdkOnConnect ==
    /\ sdk.connected
    /\ SdkStep("connect", [text |-> "none"], sdk, None, FALSE,
               <<Emit("auth", [apiKey |-> "k1"])>>)

SdkAuthSuccess ==
    /\ sdk.connected
    /\ \E data \in AuthPayloads :
         SdkStep("auth:success", data, on_auth(sdk, data), None, FALSE, <<>>)

\* auth:error: the handler prints the message
SdkAuthError ==
    /\ sdk.connected
    /\ SdkStep("auth:error", [message |-> "Invalid API key"], sdk, None, FALSE,
               <<>>)

SdkTableJoined ==
    /\ sdk.connected
    /\ \E data \in JoinedPayloads :
         SdkStep("table:joined", data, on_joined(sdk, data), None, FALSE,
                 <<>>)

SdkHandStart ==
    /\ sdk.connected
    /\ \E data \in HandStartPayloads, r \in CallbackResults :
         LET s2 == on_hand_start(sdk, data)
             called == sdk.on_hand_start_callback # None
         IN  SdkStep("hand:start", data, s2,
                     IF called THEN Some([my_cards |-> s2.my_cards]) ELSE None,
                     called /\ ~r.ok, <<>>)

SdkPhase ==
    /\ sdk.connected
    /\ \E data \in PhasePayloads :
         SdkStep("phase", data, on_phase(sdk, data), None, FALSE, <<>>)

SdkTurn ==
    /\ sdk.connected
    /\ \E data \in TurnPayloads, r \in CallbackResults :
         LET called == TurnIsMine(sdk, data) /\ sdk.on_turn_callback # None
         IN  SdkStep("turn", data, sdk,
                     IF called THEN Some(TurnArgs(sdk, data)) ELSE None,
                     called /\ ~r.ok,
                     IF called /\ r.ok THEN <<Emit("action", r.value)>>
                     ELSE <<>>)

SdkHandEnd ==
    /\ sdk.connected
    /\ \E data \in HandEndPayloads, r \in CallbackResults :
         LET called == sdk.on_hand_end_callback # None
         IN  SdkStep("hand:end", data, sdk,
                     IF called THEN Some(data) ELSE None,
                     called /\ ~r.ok, <<>>)

NextSdk ==
    \/ SdkConnect
    \/ SdkOn
    \/ SdkJoinTable
    \/ SdkOnConnect
    \/ SdkAuthSuccess
    \/ SdkAuthError
    \/ SdkTableJoined
    \/ SdkHandStart
    \/ SdkPhase
    \/ SdkTurn
    \/ SdkHandEnd

InitSdkAlone == Init /\ cl.api_key = None

SpecSdk == InitSdkAlone /\ [][NextSdk]_vars

\* C4 as stated: after a hand:start event community_cards is empty, the
\* hole cards are those of the payload and the phase is preflop.
C4_HandStartPreflop ==
    sdkEv.name = "hand:start" =>
      /\ sdk.community_cards = <<>>
      /\ sdk.my_cards = OrDefault(sdkEv.data.yourCards, <<>>)
      /\ SdkAttr(sdk, "phase") = "preflop"

\* C4, amended: after a hand:start event, whatever the state before it,
\* community_cards is empty and the hole cards are those of the payload
\* (none if it carries none); the session keeps no phase.
C4_HandStartResets ==
    sdkEv.name = "hand:start" =>
      /\ sdk.community_cards = <<>>
      /\ sdk.my_cards = OrDefault(sdkEv.data.yourCards, <<>>)

\* a hand starts while the board of the previous hand is known
C4_Witness ==
    /\ sdkEv.name = "hand:start"
    /\ sdkEv.before_cc = 5
    /\ sdk.my_cards = <<"7c", "2d">>

\* C5: a phase event that repeats the event just before it leaves the
\* session state as the first application left it.
C5_PhaseIdempotent ==
    (sdkEv.name = "phase" /\ sdkEv.repeat) => ~sdkEv.changed

\* the flop is announced twice in a row
C5_Witness ==
    /\ sdkEv.name = "phase"
    /\ sdkEv.repeat
    /\ sdk.community_cards = SubSeq(Board, 1, 3)

\* C6: a phase event carrying fewer community cards than already known (a
\* regression within the hand) is ignored: the state stays as it was.
C6_RegressionIgnored ==
    (/\ sdkEv.name = "phase"
     /\ Len(OrDefault(sdkEv.data.communityCards, <<>>)) < sdkEv.before_cc)
      => ~sdkEv.changed

\* C7: the failure of a user-supplied handler does not leave the code that
\* dispatched the event to it.
C7_FailureContained == ~trig.escaped /\ ~sdkEv.raised

\* the callback was called on a turn, in a hand that has started
TurnCalled == sdkEv.name = "turn" /\ sdkEv.cb # None /\ sdkEv.hist.hand # None

\* C26: once a hand has started, the turn callback receives the hole cards
\* of the most recent hand:start, the community cards of the most recent
\* phase event since that hand:start (none if there was none), and the pot,
\* current_bet, your_bet and your_chips of the turn payload (0 for a value
\* the payload lacks); no board of an earlier hand is passed.
C26_TurnCallbackData ==
    TurnCalled =>
      LET args == Val(sdkEv.cb)
          data == sdkEv.data
      IN  /\ args.my_cards = Val(sdkEv.hist.hand)
          /\ args.community_cards = sdkEv.hist.board
          /\ args.pot = (IF data.pot = None THEN 0 ELSE Val(data.pot))
          /\ args.current_bet = Val(data.currentBet)
          /\ args.your_bet = Val(data.yourBet)
          /\ args.your_chips = Val(data.yourChips)

\* a turn before the flop of a hand that follows a hand with a full board
C26_Witness ==
    /\ TurnCalled
    /\ sdkEv.hist.hand = Some(<<"7c", "2d">>)
    /\ sdkEv.hist.board = <<>>
    /\ sdkEv.hist.earlier = Board
    /\ sdkEv.data.pot = Some(2)

\* the SDK emitted table:join in the last step
JoinEmitted == \E i \in 1..Len(emitted) : emitted[i].event = "table:join"

\* C29, for the socket SDK: the table:join message is emitted only after an
\* auth:success event has been received.
C29_JoinAfterAuthenticated == JoinEmitted => sdkEv.hist.authed

\* _trigger alone: every handler registered for the event is invoked, in
\* registration order, whichever of them fail, and no failure leaves it.
TriggerIsolatesHandlers ==
    call.op = "_trigger" =>
      (trig.invoked = handlers[trig.event] /\ ~trig.escaped)

\* ------------------------------------------------ evaluate_preflop, alone
Suits == {"hearts", "diamonds", "clubs", "spades"}
Ranks == {"2", "3", "4", "5", "6", "7", "8", "9", "10", "J", "Q", "K", "A"}
Deck == { Card(s, r) : s \in Suits, r \in Ranks }
Tiers == {"premium", "good", "playable", "weak"}

\* every list of at most two cards, each a card of the deck or the hidden
\* placeholder
CardLists ==
    {<<>>} \cup { <<c>> : c \in Deck \cup {Unknown} }
           \cup { <<c1, c2>> : c1 \in Deck \cup {Unknown},
                               c2 \in Deck \cup {Unknown} }

\* entries of a payload's card list, as the server may send them
RawEntries ==
    { DictCard(Some("spades"), Some("A")), DictCard(Some("hearts"), Some("A")),
      DictCard(Some("spades"), None), StrCard("hidden"), StrCard("back") }
RawLists ==
    {<<>>} \cup { <<a>> : a \in RawEntries }
           \cup { <<a, b>> : a \in RawEntries, b \in RawEntries }

InitEval ==
    /\ eIn \in CardLists
    /\ eOut = "none"
    /\ InitDecideIdle /\ InitClient /\ cl.api_key = None
    /\ InitBot /\ InitSdk /\ InitPowIdle /\ InitParseIdle

\* evaluate_preflop(cards)
Evaluate ==
    /\ eOut' = evaluate_preflop(eIn)
    /\ UNCHANGED eIn
    /\ UNCHANGED nonEvalVars

\* evaluate_preflop(parse_cards(raw)): the cards as parse_cards builds them
EvaluateParsed ==
    \E raw \in RawLists :
      /\ eIn' = parse_cards(raw)
      /\ eOut' = evaluate_preflop(parse_cards(raw))
      /\ UNCHANGED nonEvalVars

NextEval == Evaluate \/ EvaluateParsed

SpecEval == InitEval /\ [][NextEval]_vars

Evaluated == eOut # "none"
Known(cards) == Len(cards) = 2 /\ cards[1] \in Deck /\ cards[2] \in Deck

\* C12: evaluate_preflop returns one of the four tiers for every list of
\* two cards, and every pair of Queens, Kings or Aces is premium.
C12_TotalPairsFirst ==
    Evaluated =>
      /\ eOut \in Tiers
      /\ (/\ Known(eIn)
          /\ eIn[1].rank = eIn[2].rank
          /\ eIn[1].rank \in {"Q", "K", "A"}) => eOut = "premium"

\* a pair of Queens was evaluated
C12_Witness ==
    /\ eIn = <<Card("hearts", "Q"), Card("clubs", "Q")>>
    /\ eOut = "premium"

\* the ordered policy of the specification, on two known cards; good is the
\* Good rule
PolicyHigh(c1, c2) == Max(RANK_VALUES(c1.rank), RANK_VALUES(c2.rank))
PolicyLow(c1, c2) == Min(RANK_VALUES(c1.rank), RANK_VALUES(c2.rank))
PolicyPair(c1, c2) == c1.rank = c2.rank
PolicySuited(c1, c2) == c1.suit = c2.suit
PremiumRule(c1, c2) ==
    \/ PolicyPair(c1, c2) /\ PolicyHigh(c1, c2) >= 12
    \/ PolicySuited(c1, c2) /\ {c1.rank, c2.rank} = {"A", "K"}
GoodRuleStated(c1, c2) ==
    \/ PolicyPair(c1, c2) /\ c1.rank \in {"10", "J"}
    \/ (c1.rank = "A" /\ c2.rank \in {"Q", "K"})
    \/ (c2.rank = "A" /\ c1.rank \in {"Q", "K"})
GoodRuleSuitedKQ(c1, c2) ==
    \/ GoodRuleStated(c1, c2)
    \/ PolicySuited(c1, c2) /\ {c1.rank, c2.rank} = {"K", "Q"}
PlayableRule(c1, c2) ==
    \/ PolicyPair(c1, c2) /\ PolicyHigh(c1, c2) >= 7
    \/ /\ PolicySuited(c1, c2)
       /\ PolicyHigh(c1, c2) - PolicyLow(c1, c2) <= 2
       /\ PolicyHigh(c1, c2) >= 8
    \/ PolicySuited(c1, c2) /\ "A" \in {c1.rank, c2.rank}
FirstMatch(premium, good, playable) ==
    IF premium THEN "premium" ELSE IF good THEN "good"
    ELSE IF playable THEN "playable" ELSE "weak"

\* C13 as stated: on two known cards evaluate_preflop returns the tier of
\* the first matching rule, Good being a pair of 10 or J or an Ace with a
\* Queen or King and nothing else (a suited King-Queen is Playable).
C13_StatedPolicy ==
    (Evaluated /\ Known(eIn)) =>
      eOut = FirstMatch(PremiumRule(eIn[1], eIn[2]),
                        GoodRuleStated(eIn[1], eIn[2]),
                        PlayableRule(eIn[1], eIn[2]))

\* C13, amended: the same ordered policy with Good also holding the suited
\* King-Queen.
C13_PolicyWithSuitedKQ ==
    (Evaluated /\ Known(eIn)) =>
      eOut = FirstMatch(PremiumRule(eIn[1], eIn[2]),
                        GoodRuleSuitedKQ(eIn[1], eIn[2]),
                        PlayableRule(eIn[1], eIn[2]))

\* a suited King-Queen was evaluated
C13_Witness ==
    /\ eIn = <<Card("spades", "K"), Card("spades", "Q")>>
    /\ eOut = "good"

\* C14: evaluate_preflop returns weak for every list holding the hidden
\* placeholder in either position and for every list of fewer than two
\* cards.
C14_UnknownIsWeak ==
    (Evaluated /\ (Len(eIn) < 2 \/ \E i \in 1..Len(eIn) : eIn[i] = Unknown))
      => eOut = "weak"

\* an Ace next to a hidden card, as parse_cards builds them
C14_Witness ==
    /\ eIn = <<Card("spades", "A"), Unknown>>
    /\ eOut = "weak"

\* -------------------------------------------------------------- solve_pow
\* Strings are sequences of one-character strings.
MaxNonce == 3

Seeds == {<<"a">>, <<"b", "7">>}
Prefixes == {<<>>, <<"0">>, <<"0", "0">>, <<"f">>}

\* hexdigest(): the leading characters of a digest; which digest a string
\* has is fixed, and any assignment of digests to strings is possible
Digests == {<<"0", "0">>, <<"0", "f">>, <<"f", "0">>}

\* str(nonce)
Digit(d) == <<"0", "1", "2", "3", "4", "5", "6", "7", "8", "9">>[d + 1]
RECURSIVE Decimal(_)
Decimal(n) ==
    IF n < 10 THEN <<Digit(n)>>
    ELSE Decimal(n \div 10) \o <<Digit(n % 10)>>

\* f"{seed}{nonce}"
TestString(seed, nonce) == seed \o Decimal(nonce)

\* str.startswith
StartsWith(str, prefix) ==
    Len(prefix) <= Len(str) /\ SubSeq(str, 1, Len(prefix)) = prefix

InitPow ==
    /\ \E seed \in Seeds :
         sha \in [{TestString(seed, n) : n \in 0..MaxNonce} -> Digests]
    /\ pw = NoPow
    /\ pwPrev = NoPow
    /\ InitDecideIdle /\ InitClient /\ cl.api_key = None
    /\ InitBot /\ InitSdk /\ InitEvalIdle /\ InitParseIdle

\* nonce = 0
FirstNonceOne == 0 + 1
FirstNonce == 0

\* solve_pow(seed, target_prefix) is entered
PowCall ==
    /\ pw.pc \in {"idle", "returned"}
    /\ \E seed \in Seeds, target_prefix \in Prefixes :
         /\ TestString(seed, 0) \in DOMAIN sha
         /\ pw' = [seed |-> seed, target_prefix |-> target_prefix,
                   nonce |-> FirstNonce, pc |-> "loop", result |-> <<>>]
    /\ pwPrev' = IF pw.pc = "returned" THEN pw ELSE pwPrev
    /\ UNCHANGED sha
    /\ UNCHANGED nonPowVars

\* one pass of the while loop: the test of the digest, then return
\* str(nonce) or nonce += 1 (the search is cut at MaxNonce)
PowIterate ==
    /\ pw.pc = "loop"
    /\ LET test == TestString(pw.seed, pw.nonce)
           hash_result == sha[test]
       IN  IF StartsWith(hash_result, pw.target_prefix)
           THEN pw' = [pw EXCEPT !.pc = "returned",
                                 !.result = Decimal(pw.nonce)]
           ELSE /\ pw.nonce < MaxNonce
                /\ pw' = [pw EXCEPT !.nonce = @ + 1]
    /\ UNCHANGED <<sha, pwPrev>>
    /\ UNCHANGED nonPowVars

NextPow == PowCall \/ PowIterate

SpecPow == InitPow /\ [][NextPow]_vars

Accepts(seed, n, prefix) == StartsWith(sha[TestString(seed, n)], prefix)

\* C11: solve_pow returns the decimal string of the least n whose digest
\* of seed followed by decimal(n) starts with target_prefix; a later call
\* with the same arguments returns the same string; for the empty prefix
\* the result is "0".
C11_LeastNonce ==
    pw.pc = "returned" =>
      /\ \E n \in 0..MaxNonce :
           /\ pw.result = Decimal(n)
           /\ Accepts(pw.seed, n, pw.target_prefix)
           /\ \A m \in 0..(n - 1) : ~Accepts(pw.seed, m, pw.target_prefix)
      /\ (pwPrev.pc = "returned" /\ pwPrev.seed = pw.seed
            /\ pwPrev.target_prefix = pw.target_prefix)
           => pwPrev.result = pw.result
      /\ pw.target_prefix = <<>> => pw.result = <<"0">>

\* the second call in a row with the same arguments returned "2" after two
\* digests failed the test
C11_Witness ==
    /\ pw.pc = "returned"
    /\ pw.result = <<"2">>
    /\ pwPrev.pc = "returned"
    /\ pwPrev.seed = pw.seed
    /\ pwPrev.target_prefix = pw.target_prefix

\* ------------------------------------------- the decision policy's branches
Decided == dOut # NoDecision
HoleCards == dIn.your_cards
Tier == evaluate_preflop(dIn.your_cards)
Preflop == dIn.phase = "preflop"
\* the amount still to pay: current_bet above your_bet, else nothing
ToCall == IF dIn.current_bet > dIn.your_bet THEN dIn.current_bet - dIn.your_bet ELSE 0
HasUnknown(cards) == \E i \in 1..Len(cards) : cards[i] = Unknown

\* C15: decide_action returns check, waiting for cards, for every state
\* whose your_cards is empty or holds the hidden placeholder in either
\* position.
C15_UnknownChecks ==
    (Decided /\ (HoleCards = <<>> \/ HasUnknown(HoleCards)))
      => (dOut.action = "check" /\ dOut.reasoning = "Waiting for cards")

\* C16: preflop with a premium hand, decide_action raises to
\* min(pot * 3, your_chips), whatever the draw and the amount to call.
C16_PremiumRaise ==
    (Decided /\ Preflop /\ Known(HoleCards) /\ Tier = "premium") =>
      /\ dOut.action = "raise"
      /\ dOut.amount =
           Some(IF dIn.pot * 3 <= dIn.your_chips THEN dIn.pot * 3
                ELSE dIn.your_chips)

\* suited A-K preflop, the pot three times over within the chips held
C16_Witness ==
    /\ Decided /\ Preflop
    /\ HoleCards = <<Card("spades", "A"), Card("spades", "K")>>
    /\ dIn.pot = 3 /\ dIn.your_chips = 20
    /\ dOut.amount = Some(9)

\* C17: preflop with a weak hand of two known cards, decide_action checks
\* when there is nothing to call and folds when there is, whatever the
\* draw.
C17_WeakCheckOrFold ==
    (Decided /\ Preflop /\ Known(HoleCards) /\ Tier = "weak") =>
      dOut.action = (IF ToCall = 0 THEN "check" ELSE "fold")

\* 7-2 offsuit with nothing to call, on the limping draw
C17_Witness ==
    /\ Decided /\ Preflop
    /\ HoleCards = <<Card("clubs", "7"), Card("diamonds", "2")>>
    /\ dIn.your_bet > dIn.current_bet
    /\ dOut.reasoning = "Weak hand, limping"

\* C18: preflop with a good hand, decide_action raises to
\* min(current_bet + pot // 2, your_chips) when there is nothing to call
\* and calls otherwise, however large the call; it never folds or checks.
C18_GoodNeverFolds ==
    (Decided /\ Preflop /\ Known(HoleCards) /\ Tier = "good") =>
      IF ToCall = 0
      THEN /\ dOut.action = "raise"
           /\ \E a \in dOut.amount :
                /\ a <= dIn.current_bet + (dIn.pot \div 2)
                /\ a <= dIn.your_chips
                /\ a \in {dIn.current_bet + (dIn.pot \div 2), dIn.your_chips}
      ELSE dOut.action = "call"

\* a pair of Jacks facing a bet with no chips left
C18_Witness ==
    /\ Decided /\ Preflop
    /\ HoleCards = <<Card("hearts", "J"), Card("clubs", "J")>>
    /\ ToCall = 2 /\ dIn.your_chips = 0
    /\ dOut.action = "call"

\* C19: after the flop with known hole cards: a call of more than half the
\* pot is called by a premium hand and folded by any other, whatever the
\* draw; a call of at most half the pot is always called by a premium or
\* good hand and called or folded by any other.
C19_PostflopPrice ==
    (/\ Decided
     /\ dIn.phase \in {"flop", "turn", "river", "showdown"}
     /\ Known(HoleCards)
     /\ ToCall > 0) =>
      IF 2 * ToCall > dIn.pot
      THEN dOut.action = (IF Tier = "premium" THEN "call" ELSE "fold")
      ELSE IF Tier \in {"premium", "good"} THEN dOut.action = "call"
           ELSE dOut.action \in {"call", "fold"}

\* a good hand folds a bet of more than half the pot on the river
C19_Witness ==
    /\ Decided /\ dIn.phase = "river"
    /\ HoleCards = <<Card("hearts", "A"), Card("clubs", "Q")>>
    /\ ToCall = 2 /\ dIn.pot = 3
    /\ dOut.action = "fold"

\* the branches whose action may depend on the draw: playable preflop with
\* nothing to call; any other phase with nothing to call; any other phase
\* with a call of at most half the pot and a playable or weak hand
Randomized ==
    \/ Preflop /\ Tier = "playable" /\ ToCall = 0
    \/ ~Preflop /\ ToCall = 0
    \/ ~Preflop /\ ToCall > 0 /\ 2 * ToCall <= dIn.pot
         /\ Tier \in {"playable", "weak"}

\* C20: decide_action applied again to the same state returns the same
\* action and amount when the draw is the same, and, outside the
\* randomized branches, whatever the draw.
C20_DrawIndependent ==
    [][(Decided /\ (dDraw' = dDraw \/ ~Randomized))
         => (dOut'.action = dOut.action /\ dOut'.amount = dOut.amount)]_vars

\* a weak hand preflop with nothing to call decided on the limping draw
\* after the checking draw
C20_Witness ==
    /\ Decided /\ ~Randomized /\ Known(HoleCards)
    /\ dDraw = 1
    /\ dOut.reasoning = "Weak hand, limping"

\* C21: call_amount is current_bet - your_bet when current_bet >= your_bet
\* and 0 otherwise, never negative, and is no stored field of the HandState.
C21_CallAmount ==
    /\ call_amount(dIn) =
         (IF dIn.current_bet >= dIn.your_bet
          THEN dIn.current_bet - dIn.your_bet ELSE 0)
    /\ call_amount(dIn) >= 0
    /\ "call_amount" \notin DOMAIN dIn

\* decide_action read call_amount of a state whose your_bet is above
\* current_bet
C21_Witness ==
    /\ Decided
    /\ Known(HoleCards)
    /\ dIn.your_bet = 2 /\ dIn.current_bet = 1

\* C28: with two known hole cards decide_action checks only when there is
\* nothing to call and calls only when there is something to call, in
\* every phase and for every draw.
C28_LegalCheckAndCall ==
    (Decided /\ Known(HoleCards)) =>
      /\ dOut.action = "check" => ToCall = 0
      /\ dOut.action = "call" => ToCall > 0

\* a playable hand calls a bet of a twentieth of its chips
C28_Witness ==
    /\ Decided /\ Preflop
    /\ HoleCards = <<Card("spades", "8"), Card("spades", "9")>>
    /\ ToCall = 1 /\ dIn.your_chips = 20
    /\ dOut.action = "call"

\* --------------------------------- parse_hand_state and parse_cards, alone
\* player records of a snapshot: the second record of agent A, a folded
\* record without bet or chips, a record without agent_id
PlayerA2 == Player(Some("A"), <<>>, Some(2), Some(9), FALSE)
PlayerFolded == Player(Some("B"), <<>>, None, None, TRUE)
PlayerNoId == Player(None, <<StrCard("hidden")>>, Some(2), Some(7), FALSE)
ParsePlayers == {PlayerA, PlayerB, PlayerA2, PlayerFolded, PlayerNoId}
ParsePlayerLists ==
    {<<>>} \cup { <<a>> : a \in ParsePlayers }
           \cup { <<a, b>> : a \in ParsePlayers, b \in ParsePlayers }

OptAgents == {None} \cup { Some(a) : a \in AgentIds }

\* the data of a full snapshot, with or without its current_hand
ParseSnapshots ==
    { Snapshot(None, cp) : cp \in OptAgents } \cup
    { Snapshot(Some(Hand(Some("flop"), Some(2), <<StrCard("hidden")>>, ps, Some(1))), cp) :
        ps \in ParsePlayerLists, cp \in OptAgents }

\* parse_hand_state(data, agent_id)
ParseHandState ==
    \E data \in ParseSnapshots, agent_id \in OptAgents :
      /\ pIn' = [data |-> data, agent_id |-> agent_id]
      /\ pOut' = Some(parse_hand_state(data, agent_id))
      /\ UNCHANGED <<rIn, rOut>>
      /\ UNCHANGED nonParseVars

\* parse_cards(cards)
ParseCards ==
    \E cards \in RawLists :
      /\ rIn' = cards
      /\ rOut' = Some(parse_cards(cards))
      /\ UNCHANGED <<pIn, pOut>>
      /\ UNCHANGED nonParseVars

NextParse == ParseHandState \/ ParseCards

SpecParse == InitSdkAlone /\ [][NextParse]_vars

\* the snapshot's player records and those that match the session's agent_id
SnapPlayers == OrDefault(pIn.data.current_hand, EmptyHand).players
Matching == { i \in 1..Len(SnapPlayers) : SnapPlayers[i].agent_id = pIn.agent_id }
FirstMatching == SnapPlayers[CHOOSE i \in Matching : \A j \in Matching : i <= j]

\* the part of C22 about the caller's record and the count of players
ParseFieldsAgree ==
    \A o \in pOut :
      /\ Matching = {} =>
           (o.your_bet = 0 /\ o.your_chips = 0 /\ o.your_cards = <<>>)
      /\ Matching # {} =>
           /\ o.your_bet = OrDefault(FirstMatching.bet, 0)
           /\ o.your_chips = OrDefault(FirstMatching.chips, 0)
           /\ o.your_cards = parse_cards(FirstMatching.cards)
      /\ o.active_players =
           Cardinality({ i \in 1..Len(SnapPlayers) : ~SnapPlayers[i].is_folded })

\* C22: parse_hand_state takes your_bet, your_chips and your_cards from the
\* record matching the session's agent_id (0, 0 and no cards without one),
\* counts the records not folded, and sets is_your_turn only when the
\* snapshot's current player is the session's own, set, identity.
C22_SnapshotFields ==
    /\ ParseFieldsAgree
    /\ \A o \in pOut :
         o.is_your_turn =>
           (pIn.agent_id # None /\ pIn.data.current_player = pIn.agent_id)

\* an entry parse_cards recognises: "hidden", or a dict with suit and rank
WellFormed(c) ==
    \/ c.kind = "str" /\ c.value = "hidden"
    \/ c.kind = "dict" /\ c.suit # None /\ c.rank # None
Reconstructed(c) ==
    IF c.kind = "str" THEN Unknown ELSE Card(Val(c.suit), Val(c.rank))

\* parse_cards on a list of recognised entries only
ParseCardsWellFormed ==
    \A out \in rOut :
      (\A i \in 1..Len(rIn) : WellFormed(rIn[i])) =>
        /\ Len(out) = Len(rIn)
        /\ \A i \in 1..Len(rIn) : out[i] = Reconstructed(rIn[i])

\* C23: the output of parse_cards has the length and order of its input:
\* every entry marked hidden is the Unknown card at the same position and
\* every entry with a suit and a rank is that card at the same position.
C23_SameLengthAndOrder ==
    \A out \in rOut :
      /\ Len(out) = Len(rIn)
      /\ \A i \in 1..Len(rIn) :
           WellFormed(rIn[i]) => out[i] = Reconstructed(rIn[i])

====
